---- MODULE Spec2Model ----
(***************************************************************************)
(* Spatial conflict detection of the aeronautical platform backend:        *)
(* ProjectController::submitProject (geometry append-merge, status         *)
(* Pending, launch of the analysis) and ConflictController::analyzeProject *)
(* (delete stale conflicts, fetch, normalize, test, persist, status        *)
(* UnderReview), over the tables projects, project_geometries, conflicts   *)
(* and flight_procedures.  Every database call is one atomic step and may  *)
(* fail; request threads and analysis threads interleave freely.           *)
(***************************************************************************)
EXTENDS Bags, FiniteSets, Integers, Sequences, TLC

(***************************************************************************)
(* Bounds of the model.                                                    *)
(***************************************************************************)
NumProjects == 2
NumThreads == 2
MaxRequests == 2
MaxStored == 2
MaxFeatures == 3
MaxFaults == 2
MaxThreadIds == 3
MaxConnections == 4

Projects == 1..NumProjects
MissingId == NumProjects + 1
Threads == 1..NumThreads

(***************************************************************************)
(* JSON values.  An object is a record; contains(k) is k \in DOMAIN.       *)
(* A geometry object carries the set of unit cells it covers (cells) and   *)
(* whether its coordinates are well formed enough for OGR to build a       *)
(* geometry from it (wellformed).  The geometry described is valid or not  *)
(* in the sense of OGRGeometry::IsValid; for an invalid one, fixable tells *)
(* whether Buffer(0) yields a geometry and fix is the set of cells that    *)
(* geometry covers.                                                        *)
(***************************************************************************)
Null == [null |-> TRUE]

Unparsable == [unparsable |-> TRUE]

Contains(j, key) == key \in DOMAIN j

Geometry(t, cells, wf) ==
    [type |-> t, coordinates |-> TRUE, cells |-> cells, wellformed |-> wf,
     valid |-> TRUE, fixable |-> TRUE, fix |-> cells]

InvalidGeometry(t, cells, fixable, fix) ==
    [type |-> t, coordinates |-> TRUE, cells |-> cells, wellformed |-> TRUE,
     valid |-> FALSE, fixable |-> fixable, fix |-> fix]

Feature(g) == [type |-> "Feature", geometry |-> g]

FeatureCollection(fs) == [type |-> "FeatureCollection", features |-> fs]

gA == Geometry("Polygon", {1}, TRUE)
gB == Geometry("Polygon", {2}, TRUE)
gAB == Geometry("Polygon", {1, 2}, TRUE)
gN == Geometry("Polygon", {3}, TRUE)
gBad == Geometry("Polygon", {1}, FALSE)
gUnknown == Geometry("Circle", {1}, TRUE)
gLine == Geometry("LineString", {3}, TRUE)
gFixable == InvalidGeometry("Polygon", {1, 2}, TRUE, {1})
gBroken == InvalidGeometry("Polygon", {2, 3}, FALSE, {})

(***************************************************************************)
(* Project.h: enum ProjectStatus, and its string form in the database.     *)
(***************************************************************************)
ProjectStatus ==
    {"Created", "Pending", "UnderReview", "Accepted", "Refused", "Cancelled"}

statusToString(status) ==
    CASE status = "Created" -> "Created"
      [] status = "Pending" -> "Pending"
      [] status = "UnderReview" -> "Under_Review"
      [] status = "Accepted" -> "Accepted"
      [] status = "Refused" -> "Refused"
      [] status = "Cancelled" -> "Cancelled"
      [] OTHER -> "Created"

stringToStatus(str) ==
    IF str = "Pending" THEN "Pending"
    ELSE IF str = "Under_Review" THEN "UnderReview"
    ELSE IF str = "Accepted" THEN "Accepted"
    ELSE IF str = "Refused" THEN "Refused"
    ELSE IF str = "Cancelled" THEN "Cancelled"
    ELSE "Created"

(***************************************************************************)
(* ProjectController::validateGeometry / validateGeoJSON.                  *)
(***************************************************************************)
validTypes ==
    {"Point", "LineString", "Polygon", "MultiPoint", "MultiLineString",
     "MultiPolygon", "GeometryCollection"}

validateGeometry(geometry) ==
    /\ Contains(geometry, "type")
    /\ Contains(geometry, "coordinates")
    /\ geometry.type \in validTypes

RECURSIVE validateGeoJSON(_)
validateGeoJSON(geojson) ==
    IF ~Contains(geojson, "type") THEN FALSE
    ELSE IF geojson.type = "Feature"
    THEN /\ Contains(geojson, "geometry")
         /\ validateGeometry(geojson.geometry)
    ELSE IF geojson.type = "FeatureCollection"
    THEN /\ Contains(geojson, "features")
         /\ \A i \in DOMAIN geojson.features :
                validateGeoJSON(geojson.features[i])
    ELSE validateGeometry(geojson)

(***************************************************************************)
(* ProjectController::checkAuthorization.  A header is a sequence of       *)
(* characters; only its first seven matter.                                *)
(***************************************************************************)
BearerPrefix == <<"B", "e", "a", "r", "e", "r", " ">>

checkAuthorization(auth_header) ==
    /\ auth_header # <<>>
    /\ Len(auth_header) >= 7
    /\ SubSeq(auth_header, 1, 7) = BearerPrefix

(***************************************************************************)
(* ProjectController::saveOrUpdateProjectGeometryCollection, the pure      *)
(* parts: the shape test on the incoming payload and the append-merge.     *)
(***************************************************************************)
HasFeaturesArray(incoming_geojson) ==
    Contains(incoming_geojson, "features")

MergeCollection(final_collection, incoming_geojson) ==
    LET base == IF ~Contains(final_collection, "type")
                   \/ final_collection.type # "FeatureCollection"
                THEN FeatureCollection(<<>>)
                ELSE final_collection
    IN  FeatureCollection(base.features \o incoming_geojson.features)

(***************************************************************************)
(* ConflictController::createSimpleGeometryFromGeoJSON.  The result is a   *)
(* geometry handle, or Null for nullptr.  A handle made by Buffer is a new *)
(* geometry (buffered), valid, covering the cells of the fix.  The repair  *)
(* of lines 382-389 is the one analyzeProject applies again to a zone at   *)
(* lines 249-257.                                                          *)
(***************************************************************************)
OGRcreateFromGeoJson(j) ==
    IF Contains(j, "wellformed") /\ j.wellformed /\ j.type \in validTypes
    THEN [cells |-> j.cells, valid |-> j.valid, fixable |-> j.fixable,
          fix |-> j.fix, buffered |-> FALSE]
    ELSE Null

IsValid(geometry) == geometry.valid

Buffer0(geometry) ==
    IF geometry.fixable
    THEN [cells |-> geometry.fix, valid |-> TRUE, fixable |-> TRUE,
          fix |-> geometry.fix, buffered |-> TRUE]
    ELSE Null

RepairOrDrop(geometry) ==
    IF ~IsValid(geometry) THEN Buffer0(geometry) ELSE geometry

RepairAlways(geometry) ==
    LET fixed == Buffer0(geometry)
    IN  IF fixed # Null THEN fixed ELSE geometry

Repair(geometry) ==
    IF ~IsValid(geometry)
    THEN LET fixed == Buffer0(geometry)
         IN  IF fixed # Null THEN fixed ELSE geometry
    ELSE geometry

RECURSIVE createSimpleGeometryFromGeoJSON(_)
createSimpleGeometryFromGeoJSON(j) ==
    IF j = Unparsable THEN Null
    ELSE IF Contains(j, "type") /\ j.type = "Feature"
    THEN IF ~Contains(j, "geometry") THEN Null
         ELSE createSimpleGeometryFromGeoJSON(j.geometry)
    ELSE LET geometry == OGRcreateFromGeoJson(j)
         IN  IF geometry # Null THEN Repair(geometry) ELSE Null

Intersects(a, b) == a.cells \cap b.cells # {}

(***************************************************************************)
(* ConflictController::analyzeProject, step 3: the project geometries      *)
(* parsed from the stored payload, in feature order.                       *)
(***************************************************************************)
RECURSIVE ParseFeaturesUnchecked(_)
ParseFeaturesUnchecked(features) ==
    IF features = <<>> THEN <<>>
    ELSE LET feature == Head(features)
         IN  (IF Contains(feature, "geometry")
              THEN <<createSimpleGeometryFromGeoJSON(feature.geometry)>>
              ELSE <<>>)
                 \o ParseFeaturesUnchecked(Tail(features))

RECURSIVE ParseFeaturesBreak(_)
ParseFeaturesBreak(features) ==
    IF features = <<>> THEN <<>>
    ELSE LET feature == Head(features)
             hGeom == IF Contains(feature, "geometry")
                      THEN createSimpleGeometryFromGeoJSON(feature.geometry)
                      ELSE Null
         IN  IF hGeom # Null
             THEN <<hGeom>> \o ParseFeaturesBreak(Tail(features))
             ELSE <<>>

RECURSIVE ParseFeatures(_)
ParseFeatures(features) ==
    IF features = <<>> THEN <<>>
    ELSE LET feature == Head(features)
             hGeom == IF Contains(feature, "geometry")
                      THEN createSimpleGeometryFromGeoJSON(feature.geometry)
                      ELSE Null
         IN  (IF hGeom # Null THEN <<hGeom>> ELSE <<>>)
                 \o ParseFeatures(Tail(features))

ParseProjectGeometries(project_json) ==
    IF Contains(project_json, "type")
       /\ project_json.type = "FeatureCollection"
    THEN IF ~Contains(project_json, "features") THEN <<>>
         ELSE ParseFeatures(project_json.features)
    ELSE LET hGeom == createSimpleGeometryFromGeoJSON(project_json)
         IN  IF hGeom # Null THEN <<hGeom>> ELSE <<>>

(***************************************************************************)
(* How step 3 of analyzeProject ends: "Exception" when json::parse throws  *)
(* (caught at line 231), "InvalidCollection" for a FeatureCollection       *)
(* without a features array (line 191), "NoGeometry" when nothing was      *)
(* parsed (line 224), "Parsed" otherwise.  All but the last return.        *)
(***************************************************************************)
NormalizeOutcome(project_geom_json) ==
    IF project_geom_json = Unparsable THEN "Exception"
    ELSE IF /\ Contains(project_geom_json, "type")
            /\ project_geom_json.type = "FeatureCollection"
            /\ ~Contains(project_geom_json, "features")
    THEN "InvalidCollection"
    ELSE IF ParseProjectGeometries(project_geom_json) = <<>>
    THEN "NoGeometry"
    ELSE "Parsed"

(***************************************************************************)
(* FlightProcedureRepository::findAllActiveProtections over the rows of    *)
(* flight_procedures: active rows with a geometry, a FeatureCollection     *)
(* turned into one MultiPolygon of its Polygon features.  The loop reads   *)
(* feature["geometry"]["type"] of a const json: for a geometry member that *)
(* is null this throws, the catch of line 629 takes over and the zone gets *)
(* the geometry "{}" (EmptyObject).                                        *)
(***************************************************************************)
EmptyObject == [empty |-> TRUE]

GeometryTypeThrows(features) ==
    \E i \in DOMAIN features :
        Contains(features[i], "geometry") /\ features[i].geometry = Null

RECURSIVE PolygonCells(_)
PolygonCells(features) ==
    IF features = <<>> THEN {}
    ELSE LET feature == Head(features)
         IN  (IF Contains(feature, "geometry")
                 /\ feature.geometry.type = "Polygon"
              THEN feature.geometry.cells ELSE {})
                 \cup PolygonCells(Tail(features))

RECURSIVE PolygonsWellformed(_)
PolygonsWellformed(features) ==
    IF features = <<>> THEN TRUE
    ELSE LET feature == Head(features)
         IN  /\ (Contains(feature, "geometry")
                   /\ feature.geometry.type = "Polygon")
                    => feature.geometry.wellformed
             /\ PolygonsWellformed(Tail(features))

RECURSIVE PolygonCoordinates(_)
PolygonCoordinates(features) ==
    IF features = <<>> THEN <<>>
    ELSE LET feature == Head(features)
         IN  (IF Contains(feature, "geometry")
                 /\ feature.geometry.type = "Polygon"
              THEN <<feature.geometry.cells>> ELSE <<>>)
                 \o PolygonCoordinates(Tail(features))

PolygonFeatures(features) ==
    {i \in DOMAIN features :
        /\ Contains(features[i], "geometry")
        /\ features[i].geometry.type = "Polygon"}

MultiPolygon(features) ==
    LET polygons == {features[i].geometry : i \in PolygonFeatures(features)}
    IN  [type |-> "MultiPolygon", coordinates |-> TRUE,
         polygons |-> PolygonCoordinates(features),
         cells |-> PolygonCells(features),
         wellformed |-> PolygonsWellformed(features),
         valid |-> \A g \in polygons : g.valid,
         fixable |-> \A g \in polygons : g.fixable,
         fix |-> UNION {g.fix : g \in polygons}]

NormalizeProtection(row) ==
    LET g == row.protection_geometry
    IN  [procedure_id |-> row.id,
         protection_geometry |->
             IF Contains(g, "features")
             THEN IF GeometryTypeThrows(g.features) THEN EmptyObject
                  ELSE MultiPolygon(g.features)
             ELSE g]

ActiveWithGeometry(row) == row.is_active /\ row.protection_geometry # Null

findAllActiveProtections(table) ==
    LET rows == SelectSeq(table, ActiveWithGeometry)
    IN  [i \in DOMAIN rows |-> NormalizeProtection(rows[i])]

ProcedureTable ==
    << [id |-> 10, is_active |-> TRUE,
        protection_geometry |-> FeatureCollection(<<Feature(gA)>>)],
       [id |-> 20, is_active |-> TRUE, protection_geometry |-> gB],
       [id |-> 30, is_active |-> FALSE, protection_geometry |-> gAB] >>

ProcedureTables == {ProcedureTable, <<>>}

(***************************************************************************)
(* Requests.  A submit request carries a project id, an Authorization      *)
(* header and a body; the body is unparsable text, or an object with or    *)
(* without a geometry member.                                              *)
(***************************************************************************)
BearerHeader == BearerPrefix \o <<"t">>
BasicHeader == <<"B", "a", "s", "i", "c", " ", "t">>
AuthHeaders == {<<>>, BasicHeader, BearerHeader}

Body(g) == [geometry |-> g]
EmptyBody == [note |-> TRUE]

SubmittedGeometries ==
    { [coordinates |-> TRUE],
      gUnknown,
      gA,
      Feature(gA),
      FeatureCollection(<<>>),
      FeatureCollection(<<Feature(gN)>>),
      FeatureCollection(<<Feature(gA), Feature(gAB)>>),
      FeatureCollection(<<gA, Feature(gBad)>>) }

Bodies ==
    {Unparsable, EmptyBody, Body(Null)} \cup {Body(g) : g \in SubmittedGeometries}

ProvidesGeometry(body) == Contains(body, "geometry") /\ body.geometry # Null

FeatureCount(g) == IF Contains(g, "features") THEN Len(g.features) ELSE 0

(***************************************************************************)
(* State.                                                                  *)
(*   projects, geometries, conflicts, procedures: the database tables      *)
(*     (geometries holds the primary project_geometries row of a project,  *)
(*     conflicts is a bag of rows, each tagged with the run that wrote it) *)
(*   hpc, hreq, hproject, hfinal: a request thread inside submitProject    *)
(*     (hreq also notes what the request has done so far, and in seen what *)
(*     was stored for the project when the request read it)                *)
(*   rpc, run: the analysis task launched by the thread                    *)
(*   answer: the most recent response of submitProject: its status code    *)
(*     and what its request was and had done                               *)
(*   removal: the most recent response of deleteProject: the request's id  *)
(*     and Authorization header, and the status code answered              *)
(*   finished: per project, the most recently finished run                 *)
(*   requests: the number of requests received; the run launched by the    *)
(*     n-th request is run n                                               *)
(*   eng: one execution of lines 184-340 of analyzeProject followed call   *)
(*     by call into the geometry library; unused (EngineOff) where the     *)
(*     analysis is taken zone by zone                                      *)
(*   dbm: the connections of DatabaseManager, followed thread by thread;   *)
(*     unused (ManagerOff) where a database call is one step               *)
(***************************************************************************)
VARIABLES projects, geometries, conflicts, procedures,
          hpc, hreq, hproject, hfinal,
          rpc, run,
          answer, removal, finished,
          requests,
          eng,
          dbm

dbvars == <<projects, geometries, conflicts, procedures>>
hvars == <<hpc, hreq, hproject, hfinal>>
rvars == <<rpc, run>>
histvars == <<answer, removal, finished>>
vars == <<dbvars, hvars, rvars, histvars, requests, eng, dbm>>

NoReq == [none |-> TRUE]
NoRun == [none |-> TRUE]
NoAnswer == [none |-> TRUE]
EngineOff == [pc |-> "off"]
ManagerOff == [off |-> TRUE]

ActivePcs == {"delete", "fetch", "zones", "findById", "update"}

RunActive(t) == rpc[t] \in ActivePcs

RunInProgress(p) == \E t \in Threads : RunActive(t) /\ run[t].project_id = p

(***************************************************************************)
(* Table conflicts.                                                        *)
(***************************************************************************)
ConflictRow(p, z, r) == [project_id |-> p, flight_procedure_id |-> z, run |-> r]

RowsOf(p) == {row \in DOMAIN conflicts : row.project_id = p}

DeleteRows(p) ==
    [row \in DOMAIN conflicts \ RowsOf(p) |-> conflicts[row]]

RECURSIVE SumOver(_, _)
SumOver(S, bag) ==
    IF S = {} THEN 0
    ELSE LET x == CHOOSE y \in S : TRUE
         IN  bag[x] + SumOver(S \ {x}, bag)

ConflictCount(p) == SumOver(RowsOf(p), conflicts)

ZoneCount(p, z) ==
    SumOver({row \in RowsOf(p) : row.flight_procedure_id = z}, conflicts)

ProcedureIds == {ProcedureTable[i].id : i \in DOMAIN ProcedureTable}

ZoneCounts(p) == [z \in ProcedureIds |-> ZoneCount(p, z)]

(***************************************************************************)
(* Table projects: of the columns ProjectRepository::update writes, the    *)
(* row keeps status and title, the title standing for every column other   *)
(* than status.                                                            *)
(***************************************************************************)
FirstTitle == "T1"
OtherTitle == "T2"

(***************************************************************************)
(* Initial state: the projects exist with status Created, nothing is       *)
(* stored for them, no request is being handled.                           *)
(***************************************************************************)
Init ==
    /\ projects = [p \in Projects |->
                      [status |-> statusToString("Created"),
                       title |-> FirstTitle]]
    /\ geometries = [p \in Projects |-> Null]
    /\ conflicts = EmptyBag
    /\ procedures \in ProcedureTables
    /\ hpc = [t \in Threads |-> "idle"]
    /\ hreq = [t \in Threads |-> NoReq]
    /\ hproject = [t \in Threads |-> Null]
    /\ hfinal = [t \in Threads |-> Null]
    /\ rpc = [t \in Threads |-> "none"]
    /\ run = [t \in Threads |-> NoRun]
    /\ answer = NoAnswer
    /\ removal = NoAnswer
    /\ finished = [p \in Projects |-> NoRun]
    /\ requests = 0
    /\ eng = EngineOff
    /\ dbm = ManagerOff

(***************************************************************************)
(* ProjectRepository::rowToProject / update: a Project object holds the    *)
(* enum, the row holds its string.                                         *)
(***************************************************************************)
rowToProject(row) ==
    [status |-> stringToStatus(row.status), title |-> row.title]

ProjectToRow(project) ==
    [status |-> statusToString(project.status), title |-> project.title]

(***************************************************************************)
(* ProjectController::submitProject, lines 319-339: the checks made before *)
(* anything is written.  lookup is the outcome of findById: "failed" (the  *)
(* SELECT failed and findById threw), "missing" or "found".  The result is *)
(* the status code of the error response, or 0 to go on.                   *)
(***************************************************************************)
SubmitChecks(auth_header, body, lookup) ==
    IF ~checkAuthorization(auth_header) THEN 401
    ELSE IF body = Unparsable THEN 400
    ELSE IF lookup = "failed" THEN 500
    ELSE IF lookup = "missing" THEN 404
    ELSE IF ProvidesGeometry(body) /\ ~validateGeoJSON(body.geometry) THEN 400
    ELSE 0

(***************************************************************************)
(* What submitProject does after each write: go on, or answer 500.         *)
(***************************************************************************)
AfterSave(saved) == IF saved THEN "update" ELSE "error"

AfterUpdateUnchecked(updated) == "launch"

AfterUpdate(updated) == IF updated THEN "launch" ELSE "error"

StoredCount(p) == FeatureCount(geometries[p])

InFlight(p) ==
    LET S == {t \in Threads : hpc[t] \in {"saveRead", "saveWrite"}
                               /\ hreq[t].id = p}
        cnt == [t \in S |-> FeatureCount(hreq[t].geometry)]
    IN  SumOver(S, cnt)

GeoJSONKind(g) ==
    IF g = Null THEN "none"
    ELSE IF g.type \in {"Feature", "FeatureCollection"} THEN g.type
    ELSE "geometry"

Answer(t, code, req) ==
    /\ answer' = [code |-> code, kind |-> req.kind, stored |-> req.stored,
                  pending |-> req.pending, launched |-> req.launched]
    /\ hpc' = [hpc EXCEPT ![t] = "idle"]
    /\ hreq' = [hreq EXCEPT ![t] = NoReq]
    /\ hproject' = [hproject EXCEPT ![t] = Null]
    /\ hfinal' = [hfinal EXCEPT ![t] = Null]
    /\ UNCHANGED removal

(***************************************************************************)
(* submitProject, entry: authorization, body, findById, validateGeoJSON.   *)
(* The worker threads of the server are interchangeable: a request is      *)
(* given to the lowest idle one.                                           *)
(***************************************************************************)
SubmitBegin(t) ==
    /\ hpc[t] = "idle"
    /\ \A u \in Threads : u < t => hpc[u] # "idle"
    /\ requests < MaxRequests
    /\ requests' = requests + 1
    /\ \E id \in Projects \cup {MissingId}, auth_header \in AuthHeaders,
          body \in Bodies, selected \in BOOLEAN :
         LET lookup == IF ~selected THEN "failed"
                       ELSE IF id \in Projects THEN "found" ELSE "missing"
             code == SubmitChecks(auth_header, body, lookup)
             geometry == IF ProvidesGeometry(body) THEN body.geometry ELSE Null
             req == [id |-> id, geometry |-> geometry, n |-> requests + 1,
                     kind |-> IF code = 0 THEN GeoJSONKind(geometry)
                              ELSE "refused",
                     seen |-> Null,
                     stored |-> FALSE, pending |-> FALSE, launched |-> FALSE]
         IN  IF code # 0
             THEN Answer(t, code, req)
             ELSE /\ StoredCount(id) + InFlight(id) + FeatureCount(geometry)
                         <= MaxStored
                  /\ hreq' = [hreq EXCEPT ![t] = req]
                  /\ hproject' = [hproject EXCEPT ![t] = rowToProject(projects[id])]
                  /\ hpc' = [hpc EXCEPT ![t] =
                                IF geometry # Null THEN "saveRead" ELSE "update"]
                  /\ UNCHANGED <<hfinal, answer, removal>>
    /\ UNCHANGED <<eng, dbm, dbvars, rvars, finished>>

(***************************************************************************)
(* saveOrUpdateProjectGeometryCollection, lines 391-412: the shape test,   *)
(* then the SELECT of the existing collection.  A failed SELECT yields no  *)
(* result set and final_collection stays null, as when no row exists.      *)
(***************************************************************************)
SaveRead(t) ==
    /\ hpc[t] = "saveRead"
    /\ IF ~HasFeaturesArray(hreq[t].geometry)
       THEN Answer(t, 500, hreq[t])
       ELSE \E selected \in BOOLEAN :
              /\ hfinal' = [hfinal EXCEPT ![t] =
                               IF selected THEN geometries[hreq[t].id] ELSE Null]
              /\ hpc' = [hpc EXCEPT ![t] = "saveWrite"]
              /\ hreq' = [hreq EXCEPT ![t].seen = geometries[hreq[t].id]]
              /\ UNCHANGED <<hproject, answer, removal>>
    /\ UNCHANGED <<eng, dbm, dbvars, rvars, finished, requests>>

(***************************************************************************)
(* saveOrUpdateProjectGeometryCollection, lines 414-455: merge and upsert. *)
(***************************************************************************)
SaveWrite(t) ==
    /\ hpc[t] = "saveWrite"
    /\ \E upserted \in BOOLEAN :
         IF AfterSave(upserted) = "update"
         THEN /\ geometries' = [geometries EXCEPT ![hreq[t].id] =
                                   IF upserted
                                   THEN MergeCollection(hfinal[t], hreq[t].geometry)
                                   ELSE @]
              /\ hpc' = [hpc EXCEPT ![t] = "update"]
              /\ hfinal' = [hfinal EXCEPT ![t] = Null]
              /\ hreq' = [hreq EXCEPT ![t].stored = upserted]
              /\ UNCHANGED <<hproject, answer, removal>>
         ELSE /\ Answer(t, 500, hreq[t])
              /\ UNCHANGED geometries
    /\ UNCHANGED <<eng, dbm, projects, conflicts, procedures, rvars, finished,
                   requests>>

(***************************************************************************)
(* submitProject, lines 347-365: status Pending, written with the whole    *)
(* project read at entry; when the update succeeded,                       *)
(* std::async(std::launch::async, ...) starts analyzeProject on a new      *)
(* thread.                                                                 *)
(***************************************************************************)
NewRun(p, n) ==
    [project_id |-> p, id |-> n, solo |-> ~RunInProgress(p),
     deleted |-> FALSE, geom |-> Null, stored |-> Null, listed |-> FALSE,
     protections |-> <<>>,
     geometries |-> <<>>, i |-> 1, created |-> <<>>, project |-> Null,
     passed |-> FALSE, updates |-> 0, wrote |-> "none", end |-> "running"]

UpdatePending(t) ==
    /\ hpc[t] = "update"
    /\ \E updated \in BOOLEAN :
         IF AfterUpdate(updated) = "launch"
         THEN /\ projects' = [projects EXCEPT ![hreq[t].id] =
                                 IF updated
                                 THEN ProjectToRow([hproject[t] EXCEPT
                                                      !.status = "Pending"])
                                 ELSE @]
              /\ run' = [u \in Threads |->
                            IF u = t THEN NewRun(hreq[t].id, hreq[t].n)
                            ELSE IF RunActive(u) /\ run[u].project_id = hreq[t].id
                            THEN [run[u] EXCEPT !.solo = FALSE]
                            ELSE run[u]]
              /\ rpc' = [rpc EXCEPT ![t] = "delete"]
              /\ hpc' = [hpc EXCEPT ![t] = "wait"]
              /\ hreq' = [hreq EXCEPT ![t].pending = updated,
                                      ![t].launched = TRUE]
              /\ UNCHANGED <<hproject, hfinal, answer, removal>>
         ELSE /\ Answer(t, 500, hreq[t])
              /\ UNCHANGED <<projects, rvars>>
    /\ UNCHANGED <<eng, dbm, geometries, conflicts, procedures, finished, requests>>

(***************************************************************************)
(* submitProject, lines 365-379.  The future returned by std::async is a   *)
(* temporary: its destructor runs at the end of the statement of line 365  *)
(* and blocks until analyzeProject has returned (or thrown).  Only then    *)
(* does the request thread add the comment and build the 202 response.     *)
(***************************************************************************)
FutureReady(t) == rpc[t] = "done"

Respond202(t) ==
    /\ hpc[t] = "wait"
    /\ FutureReady(t)
    /\ Answer(t, 202, hreq[t])
    /\ rpc' = [rpc EXCEPT ![t] = "none"]
    /\ run' = [run EXCEPT ![t] = NoRun]
    /\ UNCHANGED <<eng, dbm, dbvars, finished, requests>>

(***************************************************************************)
(* analyzeProject: the end of a run.  outcome is "Completed" (the status   *)
(* update was attempted), "Aborted" (one of the early returns) or          *)
(* "Exception" (an exception left analyzeProject).  What the run did is    *)
(* kept in run[t] until the request thread resumes, and per project for    *)
(* the most recently finished run.                                         *)
(***************************************************************************)
Inserted(created) ==
    {created[k].zone : k \in {j \in DOMAIN created : created[j].ok}}

AllCreated(created) == \A k \in DOMAIN created : created[k].ok

Summary(r) ==
    [id |-> r.id, solo |-> r.solo, stored |-> r.stored, deleted |-> r.deleted,
     clean |-> r.geom = r.stored /\ r.listed /\ AllCreated(r.created),
     inserted |-> Inserted(r.created), counts |-> ZoneCounts(r.project_id)]

Ended(r, outcome) ==
    [project_id |-> r.project_id, id |-> r.id, deleted |-> r.deleted,
     created |-> r.created, passed |-> r.passed, updates |-> r.updates,
     wrote |-> r.wrote, rows |-> ConflictCount(r.project_id), end |-> outcome]

EndRun(t, r, outcome) ==
    /\ run' = [run EXCEPT ![t] = Ended(r, outcome)]
    /\ rpc' = [rpc EXCEPT ![t] = "done"]
    /\ finished' = [finished EXCEPT ![r.project_id] = Summary(r)]

(***************************************************************************)
(* analyzeProject, line 171: ConflictRepository::deleteByProjectId.  The   *)
(* result of executeQuery is dropped: a failed DELETE goes unnoticed.      *)
(***************************************************************************)
RunDelete(t) ==
    /\ rpc[t] = "delete"
    /\ \E executed \in BOOLEAN :
         /\ conflicts' = IF executed THEN DeleteRows(run[t].project_id)
                         ELSE conflicts
         /\ run' = [run EXCEPT ![t].deleted = executed]
    /\ rpc' = [rpc EXCEPT ![t] = "fetch"]
    /\ UNCHANGED <<eng, dbm, projects, geometries, procedures, hvars, histvars,
                   requests>>

(***************************************************************************)
(* analyzeProject, lines 176-234: findGeometriesByProjectId (a failed      *)
(* SELECT yields no result set, hence nullopt), findAllActiveProtections   *)
(* (a failed SELECT yields no protection), the abort test, and the parse   *)
(* of the project geometries.  The table flight_procedures never changes,  *)
(* so the two reads are taken as one step.                                 *)
(***************************************************************************)
RunFetch(t) ==
    /\ rpc[t] = "fetch"
    /\ \E selected \in BOOLEAN, listed \in BOOLEAN :
         LET r == run[t]
             project_geom_json ==
                 IF selected THEN geometries[r.project_id] ELSE Null
             all_protections ==
                 IF listed THEN findAllActiveProtections(procedures) ELSE <<>>
             project_geometries == ParseProjectGeometries(project_geom_json)
             fetched == [r EXCEPT !.geom = project_geom_json,
                                  !.stored = geometries[r.project_id],
                                  !.listed = listed]
         IN  IF project_geom_json = Null \/ all_protections = <<>>
                \/ project_geometries = <<>>
             THEN EndRun(t, fetched, "Aborted")
             ELSE /\ run' = [run EXCEPT ![t] =
                               [fetched EXCEPT !.protections = all_protections,
                                               !.geometries = project_geometries,
                                               !.passed = TRUE]]
                  /\ rpc' = [rpc EXCEPT ![t] = "zones"]
                  /\ UNCHANGED finished
    /\ UNCHANGED <<eng, dbm, dbvars, hvars, answer, removal, requests>>

(***************************************************************************)
(* analyzeProject, lines 239-340: one protection zone.  The zone geometry  *)
(* is parsed (a zone that does not parse is skipped), every project        *)
(* geometry is tested against it, and a zone with a hit gets its Conflict  *)
(* row by ConflictRepository::create, which may fail.                      *)
(***************************************************************************)
Hits(project_geometries, hProtGeom) ==
    {k \in DOMAIN project_geometries :
        Intersects(project_geometries[k], hProtGeom)}

CreateCallsPerHit(hits) == Cardinality(hits)

CreateCalls(hits) == IF hits # {} THEN 1 ELSE 0

RECURSIVE Repeat(_, _)
Repeat(x, n) == IF n = 0 THEN <<>> ELSE <<x>> \o Repeat(x, n - 1)

RunZone(t) ==
    /\ rpc[t] = "zones"
    /\ LET r == run[t]
           protection == r.protections[r.i]
           hProtGeom == createSimpleGeometryFromGeoJSON(protection.protection_geometry)
           hits == IF hProtGeom = Null THEN {} ELSE Hits(r.geometries, hProtGeom)
           calls == CreateCalls(hits)
           row == ConflictRow(r.project_id, protection.procedure_id, r.id)
       IN  \E inserted \in BOOLEAN :
             /\ conflicts' = IF inserted /\ calls > 0
                             THEN conflicts (+) [x \in {row} |-> calls]
                             ELSE conflicts
             /\ run' = [run EXCEPT
                          ![t].created = @ \o Repeat([zone |-> protection.procedure_id,
                                                      hits |-> Cardinality(hits),
                                                      ok |-> inserted], calls),
                          ![t].i = @ + 1]
             /\ rpc' = [rpc EXCEPT ![t] =
                           IF r.i = Len(r.protections) THEN "findById" ELSE "zones"]
    /\ UNCHANGED <<eng, dbm, projects, geometries, procedures, hvars, histvars,
                   requests>>

(***************************************************************************)
(* analyzeProject, line 350: ProjectRepository::findById, which throws     *)
(* when its SELECT fails; nothing in analyzeProject catches it.            *)
(***************************************************************************)
RunFindById(t) ==
    /\ rpc[t] = "findById"
    /\ \E selected \in BOOLEAN :
         IF selected
         THEN /\ run' = [run EXCEPT ![t].project =
                            rowToProject(projects[run[t].project_id])]
              /\ rpc' = [rpc EXCEPT ![t] = "update"]
              /\ UNCHANGED finished
         ELSE EndRun(t, run[t], "Exception")
    /\ UNCHANGED <<eng, dbm, dbvars, hvars, answer, removal, requests>>

(***************************************************************************)
(* analyzeProject, lines 352-359: the project read at line 350 is written  *)
(* back with status UnderReview, once.                                     *)
(***************************************************************************)
AnalysisStatusKept(project) == project.status

AnalysisStatus(project) == "UnderReview"

RunUpdate(t) ==
    /\ rpc[t] = "update"
    /\ LET r == run[t]
           projectToUpdate == [r.project EXCEPT !.status = AnalysisStatus(r.project)]
       IN  \E updated \in BOOLEAN :
             /\ projects' = IF updated
                            THEN [projects EXCEPT ![r.project_id] =
                                     ProjectToRow(projectToUpdate)]
                            ELSE projects
             /\ EndRun(t, [r EXCEPT !.updates = @ + 1,
                                    !.wrote = ProjectToRow(projectToUpdate).status],
                       "Completed")
    /\ UNCHANGED <<eng, dbm, geometries, conflicts, procedures, hvars, answer,
                   removal,
                   requests>>

(***************************************************************************)
(* ProjectController::updateProject (PUT /api/projects/:id), taken as one  *)
(* step: its only write is the UPDATE of ProjectRepository::update, which  *)
(* sets every column from the Project built by Project::fromJson out of    *)
(* the body.  Project p; is default-initialized, so a member the body does *)
(* not give keeps an indeterminate value: the status written is then any   *)
(* of the strings statusToString can return.                               *)
(***************************************************************************)
Email(at, dot) ==
    <<"a">> \o (IF at THEN <<"@">> ELSE <<>>) \o <<"b">>
        \o (IF dot THEN <<".">> ELSE <<>>) \o <<"c">>

ProjectInput(title, email) ==
    [title |-> title, demander_name |-> "n", demander_email |-> email]

UpdateBodies ==
    { ProjectInput(OtherTitle, Email(TRUE, TRUE)),
      [ProjectInput(OtherTitle, Email(TRUE, TRUE)) EXCEPT !.title = ""],
      ProjectInput(OtherTitle, Email(FALSE, TRUE)),
      [demander_name |-> "n", demander_email |-> Email(TRUE, TRUE)],
      [title |-> OtherTitle, demander_name |-> "n",
       demander_email |-> Email(TRUE, TRUE), status |-> "Accepted"] }

validateProjectInput(input) ==
    /\ Contains(input, "title") /\ input.title # ""
    /\ Contains(input, "demander_name") /\ input.demander_name # ""
    /\ Contains(input, "demander_email") /\ input.demander_email # <<>>
    /\ \E i \in DOMAIN input.demander_email : input.demander_email[i] = "@"
    /\ \E i \in DOMAIN input.demander_email : input.demander_email[i] = "."

fromJson(j, indeterminate) ==
    [status |-> IF Contains(j, "status") THEN stringToStatus(j.status)
                ELSE indeterminate,
     title |-> IF Contains(j, "title") THEN j.title ELSE ""]

UpdateChecks(auth_header, lookup, body) ==
    IF ~checkAuthorization(auth_header) THEN 401
    ELSE IF lookup = "failed" THEN 500
    ELSE IF lookup = "missing" THEN 404
    ELSE IF body = Unparsable THEN 400
    ELSE IF ~validateProjectInput(body) THEN 400
    ELSE 0

UpdateProject(t) ==
    /\ hpc[t] = "idle"
    /\ \A u \in Threads : u < t => hpc[u] # "idle"
    /\ requests < MaxRequests
    /\ requests' = requests + 1
    /\ \E id \in Projects \cup {MissingId},
          auth_header \in {BasicHeader, BearerHeader},
          body \in UpdateBodies \cup {Unparsable},
          selected \in BOOLEAN, updated \in BOOLEAN,
          indeterminate \in ProjectStatus :
         LET lookup == IF ~selected THEN "failed"
                       ELSE IF id \in Projects THEN "found" ELSE "missing"
             code == UpdateChecks(auth_header, lookup, body)
         IN  projects' = IF code = 0 /\ updated
                         THEN [projects EXCEPT ![id] =
                                  ProjectToRow(fromJson(body, indeterminate))]
                         ELSE projects
    /\ UNCHANGED <<eng, dbm, geometries, conflicts, procedures, hvars, rvars,
                   histvars>>

(***************************************************************************)
(* deleteProject, whole.  The route hands the handler the id alone, and    *)
(* the handler checks the authorization of a crow::request() it makes      *)
(* itself: a request without headers, whose Authorization value is empty   *)
(* whatever auth_header the request received carries.  deleteById answers  *)
(* what executeQuery answers for the DELETE statement, or throws (caught   *)
(* at line 311).  A deleted project has no row (Null).                     *)
(***************************************************************************)
DefaultRequestHeader == <<>>

DeleteChecks(outcome) ==
    IF ~checkAuthorization(DefaultRequestHeader) THEN 401
    ELSE IF outcome = "thrown" THEN 500
    ELSE IF outcome = "failed" THEN 404
    ELSE 200

DeleteProject(t) ==
    /\ hpc[t] = "idle"
    /\ \A u \in Threads : u < t => hpc[u] # "idle"
    /\ requests < MaxRequests
    /\ requests' = requests + 1
    /\ \E id \in Projects \cup {MissingId}, auth_header \in AuthHeaders,
          outcome \in {"deleted", "failed", "thrown"} :
         LET code == DeleteChecks(outcome)
         IN  /\ projects' = IF code = 200 /\ id \in Projects
                            THEN [projects EXCEPT ![id] = Null]
                            ELSE projects
             /\ removal' = [id |-> id, auth_header |-> auth_header,
                            code |-> code]
    /\ UNCHANGED <<eng, dbm, geometries, conflicts, procedures, hvars, rvars,
                   answer, finished>>

Next ==
    \E t \in Threads :
        \/ DeleteProject(t)
        \/ UpdateProject(t)
        \/ SubmitBegin(t)
        \/ SaveRead(t)
        \/ SaveWrite(t)
        \/ UpdatePending(t)
        \/ Respond202(t)
        \/ RunDelete(t)
        \/ RunFetch(t)
        \/ RunZone(t)
        \/ RunFindById(t)
        \/ RunUpdate(t)

Spec == Init /\ [][Next]_vars

(***************************************************************************)
(* One execution of analyzeProject for project 1, one call into the        *)
(* Persistence Gateway or the geometry library at a time.  The stored      *)
(* payload and the table of procedures are drawn from bounded sets.  The   *)
(* library may fail: Intersects may throw, and the intersection of a pair  *)
(* may come back as no geometry; at most MaxFaults such failures are       *)
(* injected in one execution.                                              *)
(***************************************************************************)
FeatureKinds ==
    {Feature(gA), Feature(gB), Feature(gN), Feature(gBad), gA,
     Feature(gFixable), Feature(gBroken)}

RECURSIVE FeatureLists(_)
FeatureLists(n) ==
    IF n = 0 THEN {<<>>}
    ELSE LET shorter == FeatureLists(n - 1)
         IN  shorter \cup {Append(fs, f) : fs \in shorter, f \in FeatureKinds}

EnginePayloads ==
    {Unparsable, [type |-> "FeatureCollection"], gA, gBad, Feature(gAB),
     Feature(Feature(gB))}
        \cup {FeatureCollection(fs) : fs \in FeatureLists(MaxFeatures)}

RepairTable ==
    << [id |-> 40, is_active |-> TRUE, protection_geometry |-> gBad],
       [id |-> 50, is_active |-> TRUE, protection_geometry |-> gFixable],
       [id |-> 60, is_active |-> TRUE, protection_geometry |-> gBroken] >>

CollectionTable ==
    << [id |-> 70, is_active |-> TRUE,
        protection_geometry |->
            FeatureCollection(<<Feature(gB), Feature(gLine), gN,
                                Feature(gA)>>)],
       [id |-> 80, is_active |-> TRUE, protection_geometry |-> Null],
       [id |-> 90, is_active |-> TRUE,
        protection_geometry |->
            FeatureCollection(<<Feature(gA), Feature(Null)>>)] >>

EngineTables == {ProcedureTable, RepairTable, CollectionTable}

StartEngine(project_geom_json, all_protections) ==
    [pc |-> "normalize", payload |-> project_geom_json,
     protections |-> all_protections, geometries |-> <<>>,
     outcome |-> "running", z |-> 1, k |-> 1, hProtGeom |-> Null,
     conflict_found |-> FALSE, intersections |-> <<>>, log |-> <<>>,
     created |-> <<>>, faults |-> 0]

IdleEngine == [StartEngine(Null, <<>>) EXCEPT !.pc = "idle"]

EngineInit ==
    /\ projects = [p \in Projects |->
                      [status |-> statusToString("Pending"),
                       title |-> FirstTitle]]
    /\ \E payload \in EnginePayloads :
          geometries = [p \in Projects |-> IF p = 1 THEN payload ELSE Null]
    /\ conflicts = EmptyBag
    /\ procedures \in EngineTables
    /\ hpc = [t \in Threads |-> "idle"]
    /\ hreq = [t \in Threads |-> NoReq]
    /\ hproject = [t \in Threads |-> Null]
    /\ hfinal = [t \in Threads |-> Null]
    /\ rpc = [t \in Threads |-> "none"]
    /\ run = [t \in Threads |-> NoRun]
    /\ answer = NoAnswer
    /\ removal = NoAnswer
    /\ finished = [p \in Projects |-> NoRun]
    /\ requests = 0
    /\ eng = IdleEngine
    /\ dbm = ManagerOff

(***************************************************************************)
(* Line 171: deleteByProjectId, whose failure goes unnoticed.              *)
(***************************************************************************)
EngineTrigger ==
    /\ eng.pc = "idle"
    /\ \E executed \in BOOLEAN :
         conflicts' = IF executed THEN DeleteRows(1) ELSE conflicts
    /\ eng' = [eng EXCEPT !.pc = "fetch"]
    /\ UNCHANGED <<dbm, projects, geometries, procedures, hvars, rvars, histvars,
                   requests>>

(***************************************************************************)
(* Lines 176-182: the two reads and the abort test.                        *)
(***************************************************************************)
EngineFetch ==
    /\ eng.pc = "fetch"
    /\ \E selected \in BOOLEAN, listed \in BOOLEAN :
         LET project_geom_json == IF selected THEN geometries[1] ELSE Null
             all_protections ==
                 IF listed THEN findAllActiveProtections(procedures) ELSE <<>>
         IN  eng' = IF project_geom_json = Null \/ all_protections = <<>>
                    THEN [eng EXCEPT !.outcome = "Aborted", !.pc = "done"]
                    ELSE StartEngine(project_geom_json, all_protections)
    /\ UNCHANGED <<dbm, dbvars, hvars, rvars, histvars, requests>>

(***************************************************************************)
(* Lines 187-234: the project geometries.                                  *)
(***************************************************************************)
EngineNormalize ==
    /\ eng.pc = "normalize"
    /\ LET outcome == NormalizeOutcome(eng.payload)
       IN  eng' = IF outcome = "Parsed"
                  THEN [eng EXCEPT
                          !.geometries = ParseProjectGeometries(eng.payload),
                          !.pc = "zone"]
                  ELSE [eng EXCEPT !.outcome = outcome, !.pc = "done"]
    /\ UNCHANGED <<dbm, dbvars, hvars, rvars, histvars, requests>>

(***************************************************************************)
(* Lines 239-260: the next protection zone.  Its geometry is parsed (and   *)
(* repaired by createSimpleGeometryFromGeoJSON); a zone without geometry   *)
(* is skipped; otherwise it is repaired once more when still invalid.      *)
(***************************************************************************)
AfterZoneRenormalize(z, n) ==
    IF z < n THEN [pc |-> "normalize", z |-> z + 1]
    ELSE [pc |-> "status", z |-> z + 1]

AfterZone(z, n) ==
    IF z < n THEN [pc |-> "zone", z |-> z + 1]
    ELSE [pc |-> "status", z |-> z + 1]

EngineZone ==
    /\ eng.pc = "zone"
    /\ LET protection == eng.protections[eng.z]
           hProtGeom ==
               createSimpleGeometryFromGeoJSON(protection.protection_geometry)
           next == AfterZone(eng.z, Len(eng.protections))
       IN  eng' = IF hProtGeom = Null
                  THEN [eng EXCEPT !.pc = next.pc, !.z = next.z]
                  ELSE [eng EXCEPT
                          !.pc = "pair", !.k = 1,
                          !.hProtGeom = Repair(hProtGeom),
                          !.conflict_found = FALSE,
                          !.intersections = <<>>]
    /\ UNCHANGED <<dbm, dbvars, hvars, rvars, histvars, requests>>

(***************************************************************************)
(* Lines 263-282: one (project geometry, zone) pair.  PairOrder is the     *)
(* order in which the inner loop takes the project geometries.  Intersects *)
(* answers, or throws (caught at line 278); on a positive answer           *)
(* conflict_found is set and then the intersection is computed, which may  *)
(* yield no geometry.                                                      *)
(***************************************************************************)
PairOrderDescending(n) == [k \in 1..n |-> n + 1 - k]

PairOrder(n) == [k \in 1..n |-> k]

ConflictFoundIfComputed(found, intersects, hIntersection) ==
    found \/ (intersects /\ hIntersection # Null)

ConflictFound(found, intersects, hIntersection) == found \/ intersects

AfterPairStopOnException(result, k, n) ==
    IF result = "exception" THEN n + 1 ELSE k + 1

AfterPair(result, k, n) == k + 1

Intersection(a, b) ==
    [cells |-> a.cells \cap b.cells, valid |-> TRUE, fixable |-> TRUE,
     fix |-> a.cells \cap b.cells, buffered |-> FALSE]

EngineTestPair ==
    /\ eng.pc = "pair"
    /\ \E behaviour \in {"normal", "throws", "nointersection"} :
         LET n == Len(eng.geometries)
             i == PairOrder(n)[eng.k]
             project_geometry == eng.geometries[i]
             intersects == /\ behaviour # "throws"
                           /\ Intersects(project_geometry, eng.hProtGeom)
             hIntersection ==
                 IF intersects /\ behaviour = "normal"
                 THEN Intersection(project_geometry, eng.hProtGeom)
                 ELSE Null
             result == IF behaviour = "throws" THEN "exception"
                       ELSE IF intersects THEN "hit" ELSE "miss"
             k == AfterPair(result, eng.k, n)
         IN  /\ behaviour # "normal" => eng.faults < MaxFaults
             /\ behaviour = "nointersection" => intersects
             /\ eng' = [eng EXCEPT
                          !.conflict_found =
                              ConflictFound(@, intersects, hIntersection),
                          !.intersections =
                              IF hIntersection # Null
                              THEN Append(@, hIntersection) ELSE @,
                          !.log = Append(@, [z |-> eng.z, g |-> i,
                                             result |-> result,
                                             computed |-> hIntersection # Null]),
                          !.faults = IF behaviour # "normal" THEN @ + 1 ELSE @,
                          !.k = k,
                          !.pc = IF k > n THEN "aggregate" ELSE "pair"]
    /\ UNCHANGED <<dbm, dbvars, hvars, rvars, histvars, requests>>

(***************************************************************************)
(* Lines 284-339: a zone with a hit gets one call of                       *)
(* ConflictRepository::create, with the export of its intersections.       *)
(* intersection_json starts as "{}" (Placeholder); OGR_G_ExportToJson may  *)
(* return no string (or the export may throw), and the text then stays     *)
(* "{}".  ConflictRepository::create inserts the row of run 1 of project  *)
(* 1, or fails; its result is only logged.  A failed export and a failed   *)
(* insert are among the MaxFaults failures of one execution.               *)
(***************************************************************************)
Placeholder == [placeholder |-> TRUE]

ExportToJson(geometry) == [type |-> "Geometry", cells |-> geometry.cells]

CollectionToJson(members) ==
    [type |-> "GeometryCollection",
     geometries |-> [j \in DOMAIN members |-> ExportToJson(members[j])]]

ExportIntersectionsFirst(intersections, exported) ==
    IF intersections = <<>> \/ ~exported THEN Placeholder
    ELSE ExportToJson(intersections[1])

ExportIntersections(intersections, exported) ==
    IF intersections = <<>> THEN Placeholder
    ELSE IF ~exported THEN Placeholder
    ELSE IF Len(intersections) = 1 THEN ExportToJson(intersections[1])
    ELSE CollectionToJson(intersections)

AfterCreateStopOnFailure(inserted, z, n) ==
    IF inserted THEN AfterZone(z, n) ELSE [pc |-> "status", z |-> z + 1]

AfterCreate(inserted, z, n) == AfterZone(z, n)

EngineAggregate ==
    /\ eng.pc = "aggregate"
    /\ \E exported \in BOOLEAN, inserted \in BOOLEAN :
         LET protection == eng.protections[eng.z]
             n == Len(eng.protections)
             next == IF eng.conflict_found
                     THEN AfterCreate(inserted, eng.z, n)
                     ELSE AfterZone(eng.z, n)
             attempted == eng.conflict_found /\ eng.intersections # <<>>
             failures == (IF exported THEN 0 ELSE 1)
                             + (IF inserted THEN 0 ELSE 1)
             row == ConflictRow(1, protection.procedure_id, 1)
         IN  /\ ~exported => attempted
             /\ ~inserted => eng.conflict_found
             /\ eng.faults + failures <= MaxFaults
             /\ conflicts' = IF eng.conflict_found /\ inserted
                             THEN conflicts (+) SetToBag({row})
                             ELSE conflicts
             /\ eng' = [eng EXCEPT
                          !.created =
                              IF eng.conflict_found
                              THEN Append(@, [zone |-> protection.procedure_id,
                                              exported |-> exported,
                                              ok |-> inserted,
                                              conflicting_geometry |->
                                                  ExportIntersections(
                                                      eng.intersections,
                                                      exported)])
                              ELSE @,
                          !.faults = @ + failures,
                          !.pc = next.pc, !.z = next.z]
    /\ UNCHANGED <<dbm, projects, geometries, procedures, hvars, rvars, histvars,
                   requests>>

(***************************************************************************)
(* Lines 349-362: findById (which throws when its SELECT fails) and the    *)
(* update with status UnderReview.                                         *)
(***************************************************************************)
EngineStatus ==
    /\ eng.pc = "status"
    /\ \E selected \in BOOLEAN, updated \in BOOLEAN :
         IF ~selected
         THEN /\ eng' = [eng EXCEPT !.outcome = "Thrown", !.pc = "done"]
              /\ UNCHANGED projects
         ELSE LET project == rowToProject(projects[1])
                  projectToUpdate ==
                      [project EXCEPT !.status = AnalysisStatus(project)]
              IN  /\ projects' = IF updated
                                 THEN [projects EXCEPT ![1] =
                                          ProjectToRow(projectToUpdate)]
                                 ELSE projects
                  /\ eng' = [eng EXCEPT !.outcome = "Completed",
                                        !.pc = "done"]
    /\ UNCHANGED <<dbm, geometries, conflicts, procedures, hvars, rvars, histvars,
                   requests>>

EngineNext ==
    \/ EngineTrigger
    \/ EngineFetch
    \/ EngineNormalize
    \/ EngineZone
    \/ EngineTestPair
    \/ EngineAggregate
    \/ EngineStatus

EngineSpec == EngineInit /\ [][EngineNext]_vars

(***************************************************************************)
(* DatabaseManager (MySQL C API build): the thread-local connections.      *)
(* Thread 1 is the thread that serves the requests and shuts the manager   *)
(* down; every other thread id is the thread std::async starts for one     *)
(* analysis run (ProjectController.cpp:365), and an id is free for a new   *)
(* thread once its thread has ended.  dbm holds                            *)
(*   live: the ids of the live threads                                     *)
(*   thread_connection: per thread id, the thread_local pointer            *)
(*     thread_connection_ (NoConnection for nullptr)                       *)
(*   active_connections: the map active_connections_ (NoConnection for an  *)
(*     id without entry)                                                   *)
(*   open: the connections made by mysql_real_connect and not yet closed   *)
(*   made: the number of connections made so far                           *)
(*   down: cleanup() has run                                               *)
(***************************************************************************)
ThreadIds == 1..MaxThreadIds
MainThread == 1
NoConnection == 0

ManagerInit ==
    [live |-> {MainThread},
     thread_connection |-> [id \in ThreadIds |-> NoConnection],
     active_connections |-> [id \in ThreadIds |-> NoConnection],
     open |-> {}, made |-> 0, down |-> FALSE]

ConnInit ==
    /\ projects = [p \in Projects |->
                      [status |-> statusToString("Created"),
                       title |-> FirstTitle]]
    /\ geometries = [p \in Projects |-> Null]
    /\ conflicts = EmptyBag
    /\ procedures = ProcedureTable
    /\ hpc = [t \in Threads |-> "idle"]
    /\ hreq = [t \in Threads |-> NoReq]
    /\ hproject = [t \in Threads |-> Null]
    /\ hfinal = [t \in Threads |-> Null]
    /\ rpc = [t \in Threads |-> "none"]
    /\ run = [t \in Threads |-> NoRun]
    /\ answer = NoAnswer
    /\ removal = NoAnswer
    /\ finished = [p \in Projects |-> NoRun]
    /\ requests = 0
    /\ eng = EngineOff
    /\ dbm = ManagerInit

(***************************************************************************)
(* registerConnection, unregisterConnection, cleanupThreadConnection, for  *)
(* the calling thread id.                                                  *)
(***************************************************************************)
registerConnection(m, id, conn) ==
    [m EXCEPT !.active_connections[id] = conn]

unregisterConnection(m, id, conn) ==
    IF m.active_connections[id] # NoConnection
       /\ m.active_connections[id] = conn
    THEN [m EXCEPT !.active_connections[id] = NoConnection]
    ELSE m

cleanupThreadConnection(m, id) ==
    IF m.thread_connection[id] # NoConnection
    THEN LET conn == m.thread_connection[id]
         IN  [unregisterConnection(m, id, conn) EXCEPT
                !.open = @ \ {conn},
                !.thread_connection[id] = NoConnection]
    ELSE m

(***************************************************************************)
(* ensureThreadConnection: a healthy connection is kept; a dead one is     *)
(* cleaned up; then a new one is made and registered, or                   *)
(* createNewConnection fails and the call throws.                          *)
(***************************************************************************)
ensureThreadConnection(m, id, healthy, connected) ==
    IF m.thread_connection[id] # NoConnection /\ healthy THEN m
    ELSE LET cleaned == cleanupThreadConnection(m, id)
             conn == m.made + 1
         IN  IF connected
             THEN registerConnection(
                      [cleaned EXCEPT !.thread_connection[id] = conn,
                                      !.open = @ \cup {conn},
                                      !.made = conn],
                      id, conn)
             ELSE cleaned

(***************************************************************************)
(* std::async(std::launch::async, ...): a new thread, whose thread_local   *)
(* pointer starts as nullptr.                                              *)
(***************************************************************************)
ConnLaunch ==
    /\ ~dbm.down
    /\ \E id \in ThreadIds \ dbm.live :
         dbm' = [dbm EXCEPT !.live = @ \cup {id},
                            !.thread_connection[id] = NoConnection]
    /\ UNCHANGED <<dbvars, hvars, rvars, histvars, requests, eng>>

(***************************************************************************)
(* executeQuery / executeSelectQuery on a live thread: the connection is   *)
(* ensured, and a query that fails with CR_SERVER_GONE_ERROR or            *)
(* CR_SERVER_LOST (lost) cleans the thread's connection up.                *)
(***************************************************************************)
ConnQuery ==
    /\ ~dbm.down
    /\ \E id \in dbm.live, healthy \in BOOLEAN, connected \in BOOLEAN,
          lost \in BOOLEAN :
         LET ensured == ensureThreadConnection(dbm, id, healthy, connected)
         IN  /\ ensured.made <= MaxConnections
             /\ dbm' = IF ensured.thread_connection[id] # NoConnection /\ lost
                       THEN cleanupThreadConnection(ensured, id)
                       ELSE ensured
    /\ UNCHANGED <<dbvars, hvars, rvars, histvars, requests, eng>>

(***************************************************************************)
(* The end of the thread of an analysis run: analyzeProject returns, the   *)
(* thread_local pointer goes with the thread.  thread_connection_ is a raw *)
(* MYSQL*: nothing runs for it at thread exit.                             *)
(***************************************************************************)
ConnThreadEnd ==
    /\ ~dbm.down
    /\ \E id \in dbm.live \ {MainThread} :
         dbm' = [dbm EXCEPT !.live = @ \ {id},
                            !.thread_connection[id] = NoConnection]
    /\ UNCHANGED <<dbvars, hvars, rvars, histvars, requests, eng>>

(***************************************************************************)
(* DatabaseManager::cleanup, run by the main thread at shutdown, after the *)
(* analysis threads have ended: the caller's connection, then every        *)
(* connection still tracked in active_connections_.                        *)
(***************************************************************************)
ConnCleanup ==
    /\ ~dbm.down
    /\ dbm.live = {MainThread}
    /\ LET m == cleanupThreadConnection(dbm, MainThread)
           tracked == {m.active_connections[id] : id \in ThreadIds}
                          \ {NoConnection}
       IN  dbm' = [m EXCEPT
                     !.open = @ \ tracked,
                     !.active_connections =
                         [id \in ThreadIds |-> NoConnection],
                     !.down = TRUE]
    /\ UNCHANGED <<dbvars, hvars, rvars, histvars, requests, eng>>

ConnNext ==
    \/ ConnLaunch
    \/ ConnQuery
    \/ ConnThreadEnd
    \/ ConnCleanup

ConnSpec == ConnInit /\ [][ConnNext]_vars

(***************************************************************************)
(* Properties.                                                             *)
(***************************************************************************)

\* C1: whenever no analysis run of a project is in progress, the project's
\* Conflict rows are exactly the rows inserted by its most recently finished
\* run: one row per zone that run inserted, and no other row.  Stated for
\* the runs whose DELETE was executed, so that only the interleaving of the
\* steps of several runs can break it.
ReplaceInvariant ==
    \A p \in Projects :
        (~RunInProgress(p) /\ finished[p] # NoRun /\ finished[p].deleted) =>
            /\ RowsOf(p) = {ConflictRow(p, z, finished[p].id) :
                              z \in finished[p].inserted}
            /\ \A row \in RowsOf(p) : conflicts[row] = 1

\* C2: no two executions of analyzeProject for the same project are both
\* between their deleteByProjectId and their end.
InsideRun(t) == rpc[t] \in {"fetch", "zones", "findById", "update"}

RunsSerialized ==
    \A t, u \in Threads :
        (t # u /\ InsideRun(t) /\ InsideRun(u)) =>
            run[t].project_id # run[u].project_id

\* C3: when a run of a project finishes after the previous run of that
\* project, neither overlapping another run of the project, and both found
\* the same stored geometry, the Conflict rows per zone are the same after
\* the second run as after the first.  Stated for the runs whose fetches and
\* inserts all succeeded, so that the two runs had the same inputs and made
\* the same create calls.
RerunSameConflicts ==
    [][\A p \in Projects :
          (/\ finished[p] # NoRun
           /\ finished'[p] # finished[p]
           /\ finished[p].solo /\ finished'[p].solo
           /\ finished[p].clean /\ finished'[p].clean
           /\ finished'[p].stored = finished[p].stored)
              => finished'[p].counts = finished[p].counts]_vars

\* C4: in one run a zone gets at most one create call, and exactly one when
\* at least one project geometry intersects it; no (project, zone) pair ever
\* has more than one row of the same run.
CallsFor(created, z) ==
    Cardinality({k \in DOMAIN created : created[k].zone = z})

OneConflictPerZone ==
    /\ \A row \in DOMAIN conflicts : conflicts[row] <= 1
    /\ \A t \in Threads :
          rpc[t] \in {"zones", "findById", "update"} =>
              \A j \in 1..(run[t].i - 1) :
                  LET protection == run[t].protections[j]
                      zoneGeom == createSimpleGeometryFromGeoJSON(
                                      protection.protection_geometry)
                      k == IF zoneGeom = Null THEN 0
                           ELSE Cardinality(Hits(run[t].geometries, zoneGeom))
                  IN  CallsFor(run[t].created, protection.procedure_id)
                          = IF k >= 1 THEN 1 ELSE 0

OneConflictPerZoneWitness ==
    \E t \in Threads :
        /\ rpc[t] \in {"zones", "findById", "update"}
        /\ \E k \in DOMAIN run[t].created :
              /\ run[t].created[k].hits >= 2
              /\ run[t].created[k].ok
              /\ conflicts[ConflictRow(run[t].project_id,
                                       run[t].created[k].zone, run[t].id)] = 1

\* C5: a request thread that has launched the analysis is never held back by
\* it: the 202 response can be produced whether or not the run has ended.
AcknowledgeWithoutWaiting ==
    \A t \in Threads : hpc[t] = "wait" => ENABLED Respond202(t)

\* C6: a run that has passed the abort checks ends having attempted the
\* status update exactly once, with UnderReview.
PassedRunUpdatesStatus ==
    \A t \in Threads :
        (rpc[t] = "done" /\ run[t].passed) =>
            /\ run[t].updates = 1
            /\ stringToStatus(run[t].wrote) = "UnderReview"

\* C7: a run that does not pass the abort checks ends aborted, without an
\* exception, has made no create call and no status update, and, having
\* deleted the prior Conflict rows first, leaves the project with zero
\* Conflict rows.
AbortedRunLeavesNothing ==
    \A t \in Threads :
        (rpc[t] = "done" /\ ~run[t].passed) =>
            /\ run[t].end = "Aborted"
            /\ run[t].created = <<>>
            /\ run[t].updates = 0
            /\ run[t].rows = 0

\* C8: the only status analyzeProject writes to a project is UnderReview.
OnlyUnderReviewWritten ==
    \A t \in Threads :
        (rpc[t] = "done" /\ run[t].updates > 0) =>
            stringToStatus(run[t].wrote) = "UnderReview"

OnlyUnderReviewWrittenWitness ==
    \E t \in Threads :
        /\ rpc[t] = "done"
        /\ run[t].updates > 0
        /\ projects[run[t].project_id].status = "Under_Review"

\* C9: a run is launched only by a request that has stored its geometry
\* (when it provided one) and persisted status Pending; a request whose
\* write failed is answered with an error and launches no run.
Prepared(req) == req.pending /\ (req.kind # "none" => req.stored)

LaunchAfterStoreAndPending ==
    /\ \A t \in Threads :
          /\ rpc[t] # "none" => (hreq[t] # NoReq /\ hreq[t].launched)
          /\ (hreq[t] # NoReq /\ hreq[t].launched) => Prepared(hreq[t])
    /\ answer # NoAnswer =>
          /\ answer.launched => Prepared(answer)
          /\ answer.code = 202 <=> answer.launched
          /\ answer.code # 202 => answer.code \in {400, 401, 404, 500}

LaunchAfterStoreAndPendingWitness ==
    /\ \E t \in Threads :
          /\ rpc[t] # "none"
          /\ hreq[t].kind = "FeatureCollection"
          /\ hreq[t].stored /\ hreq[t].pending
    /\ answer # NoAnswer
    /\ answer.code = 500
    /\ answer.stored
    /\ ~answer.pending

\* C10: a submission whose geometry is a valid Feature or a valid bare
\* geometry is stored and answered with 202, not with an error.
FeatureOrGeometryAccepted ==
    (answer # NoAnswer /\ answer.kind \in {"Feature", "geometry"}) =>
        /\ answer.code = 202
        /\ answer.stored

\* C11: the stored geometry of a project is a FeatureCollection with a
\* features array, and a submission that stores its geometry appends: the
\* features stored after it are the features stored before it followed by
\* the submitted ones.  Stated for the submissions that no other write of
\* the project's collection came between their read and their write.
StoredFeatures(p) ==
    IF geometries[p] = Null THEN <<>> ELSE geometries[p].features

SubmissionAppends ==
    [][\A t \in Threads :
          (/\ hpc[t] = "saveWrite"
           /\ hpc'[t] = "update"
           /\ hreq[t].seen = geometries[hreq[t].id])
              => /\ geometries'[hreq[t].id].type = "FeatureCollection"
                 /\ Contains(geometries'[hreq[t].id], "features")
                 /\ StoredFeatures(hreq[t].id)' =
                        StoredFeatures(hreq[t].id)
                            \o hreq[t].geometry.features]_vars

\* C12: normalizing a FeatureCollection of which N features have a geometry
\* that parses and the others have no geometry key, or one that does not
\* parse, yields exactly N geometries: the k-th geometry of the set is the
\* geometry of the k-th such feature.
Normalized ==
    \/ eng.pc \in {"zone", "pair", "aggregate", "status"}
    \/ eng.pc = "done" /\ eng.outcome # "Aborted"

ParsesAt(features, i) ==
    /\ Contains(features[i], "geometry")
    /\ createSimpleGeometryFromGeoJSON(features[i].geometry) # Null

Nth(S, k) == CHOOSE i \in S : Cardinality({j \in S : j < i}) = k - 1

NormalizeKeepsParsable ==
    (Normalized /\ Contains(eng.payload, "features")) =>
        LET features == eng.payload.features
            parsable == {i \in DOMAIN features : ParsesAt(features, i)}
        IN  /\ Len(eng.geometries) = Cardinality(parsable)
            /\ \A k \in 1..Len(eng.geometries) :
                  eng.geometries[k] =
                      createSimpleGeometryFromGeoJSON(
                          features[Nth(parsable, k)].geometry)

NormalizeKeepsParsableWitness ==
    /\ Normalized
    /\ Contains(eng.payload, "features")
    /\ Len(eng.payload.features) = 3
    /\ ParsesAt(eng.payload.features, 1)
    /\ ~ParsesAt(eng.payload.features, 2)
    /\ ParsesAt(eng.payload.features, 3)
    /\ Len(eng.geometries) = 2
    /\ eng.geometries[1] # eng.geometries[2]

\* C13: repair is idempotent.  For the geometry OGR builds from every
\* feature of the payload, repairing the repaired geometry changes nothing
\* and repairing a valid geometry returns it unchanged; and the zone under
\* test, repaired when parsed and again before the tests, is the geometry
\* one repair yields.
PayloadGeometries ==
    IF Contains(eng.payload, "features")
    THEN {eng.payload.features[i].geometry :
            i \in {j \in DOMAIN eng.payload.features :
                      ParsesAt(eng.payload.features, j)}}
    ELSE {}

RunEndsNormally ==
    \A t \in Threads :
        rpc[t] = "done" => run[t].end \in {"Aborted", "Completed"}

\* C15: after a run that inserted conflicts, no Conflict row written before
\* that run remains for the project, whether its DELETE succeeded or not.
\* Stated for a run that overlapped no other run of the project, once it has
\* finished and before another starts: every row is then a row of that run.
PriorConflictsDeleted ==
    \A p \in Projects :
        (/\ finished[p] # NoRun
         /\ ~RunInProgress(p)
         /\ finished[p].solo
         /\ finished[p].inserted # {})
            => \A row \in RowsOf(p) : row.run = finished[p].id

\* C16: a feature without a geometry, or whose geometry does not parse,
\* does not end the normalization: the geometry of every other feature of
\* the collection that parses is in the geometry set, and the normalization
\* ends for lack of geometries only when no feature parses.  It ends by an
\* exception exactly when the stored payload is not JSON.
MalformedFeatureSkipped ==
    Normalized =>
        /\ eng.outcome = "Exception" <=> eng.payload = Unparsable
        /\ Contains(eng.payload, "features") =>
              LET features == eng.payload.features
              IN  /\ \A i \in DOMAIN features :
                        ParsesAt(features, i) =>
                            \E k \in DOMAIN eng.geometries :
                                eng.geometries[k] =
                                    createSimpleGeometryFromGeoJSON(
                                        features[i].geometry)
                  /\ eng.outcome = "NoGeometry" <=>
                        \A i \in DOMAIN features : ~ParsesAt(features, i)
                  /\ eng.outcome # "InvalidCollection"

MalformedFeatureSkippedWitness ==
    /\ eng.pc = "done"
    /\ eng.outcome = "Completed"
    /\ Contains(eng.payload, "features")
    /\ Len(eng.payload.features) = 3
    /\ ~Contains(eng.payload.features[1], "geometry")
    /\ eng.payload.features[2] = Feature(gBad)
    /\ ParsesAt(eng.payload.features, 3)
    /\ Len(eng.geometries) = 1
    /\ eng.log # <<>>

\* C17: for every feature whose geometry OGR builds and finds invalid, the
\* geometry set holds the buffered geometry in its place when Buffer(0)
\* yields one, and the original invalid geometry when it does not; and in a
\* completed run every invalid geometry of the set was tested against
\* every zone that has a geometry.
BuiltAt(features, i) ==
    IF Contains(features[i], "geometry")
    THEN OGRcreateFromGeoJson(features[i].geometry)
    ELSE Null

InSet(geometry) == \E k \in DOMAIN eng.geometries : eng.geometries[k] = geometry

Tested(z, g) == \E e \in DOMAIN eng.log : eng.log[e].z = z /\ eng.log[e].g = g

ZoneHasGeometry(z) ==
    OGRcreateFromGeoJson(eng.protections[z].protection_geometry) # Null

FailedRepairKeepsGeometry ==
    /\ (Normalized /\ Contains(eng.payload, "features")) =>
          \A i \in DOMAIN eng.payload.features :
              LET raw == BuiltAt(eng.payload.features, i)
              IN  (raw # Null /\ ~IsValid(raw)) =>
                      IF Buffer0(raw) # Null
                      THEN InSet(Buffer0(raw)) /\ ~InSet(raw)
                      ELSE InSet(raw) /\ eng.outcome # "NoGeometry"
    /\ (eng.pc = "done" /\ eng.outcome = "Completed") =>
          \A g \in DOMAIN eng.geometries :
              ~IsValid(eng.geometries[g]) =>
                  \A z \in DOMAIN eng.protections :
                      ZoneHasGeometry(z) => Tested(z, g)

FailedRepairKeepsGeometryWitness ==
    /\ eng.pc = "done"
    /\ eng.outcome = "Completed"
    /\ \E g, h \in DOMAIN eng.geometries :
          /\ ~IsValid(eng.geometries[g])
          /\ eng.geometries[h].buffered
          /\ \E e \in DOMAIN eng.log :
                eng.log[e].g = g /\ eng.log[e].result = "hit"
    /\ eng.created # <<>>

\* C18: a zone for which the intersects test of some pair was positive gets
\* its create call, whether or not an intersection geometry was computed;
\* when none was computed for any of its pairs, the call carries the
\* placeholder.
ZonesDone == 1..(eng.z - 1)

HitsOf(z) ==
    {e \in DOMAIN eng.log : eng.log[e].z = z /\ eng.log[e].result = "hit"}

CreatedFor(z) ==
    {c \in DOMAIN eng.created :
        eng.created[c].zone = eng.protections[z].procedure_id}

HitWithoutIntersectionRecorded ==
    eng.pc # "off" =>
        \A z \in ZonesDone :
            HitsOf(z) # {} =>
                /\ Cardinality(CreatedFor(z)) = 1
                /\ (\A e \in HitsOf(z) : ~eng.log[e].computed) =>
                      \A c \in CreatedFor(z) :
                          eng.created[c].conflicting_geometry = Placeholder

HitWithoutIntersectionRecordedWitness ==
    /\ eng.pc = "done"
    /\ \E z \in ZonesDone :
          /\ Cardinality(HitsOf(z)) = 2
          /\ \A e \in HitsOf(z) : ~eng.log[e].computed
          /\ \E c \in CreatedFor(z) :
                eng.created[c].conflicting_geometry = Placeholder

\* C19: an exception raised by the test of one pair counts as no hit for
\* that pair and for nothing else: every project geometry is tested exactly
\* once against every zone that has a geometry, also after an exception,
\* and a zone gets its create call exactly when some pair of it whose test
\* did not throw intersects.
ZoneHandle(z) ==
    createSimpleGeometryFromGeoJSON(eng.protections[z].protection_geometry)

TestsOf(z, g) ==
    {e \in DOMAIN eng.log : eng.log[e].z = z /\ eng.log[e].g = g}

ExceptionIsNoHitForItsPair ==
    eng.pc # "off" =>
        \A z \in ZonesDone :
            /\ ZoneHandle(z) # Null =>
                  \A g \in DOMAIN eng.geometries :
                      Cardinality(TestsOf(z, g)) = 1
            /\ CreatedFor(z) # {} <=>
                  /\ ZoneHandle(z) # Null
                  /\ \E e \in DOMAIN eng.log :
                        /\ eng.log[e].z = z
                        /\ eng.log[e].result # "exception"
                        /\ Intersects(eng.geometries[eng.log[e].g],
                                      ZoneHandle(z))

ExceptionIsNoHitForItsPairWitness ==
    /\ eng.pc = "done"
    /\ \E e, f, h \in DOMAIN eng.log :
          /\ eng.log[e].result = "exception"
          /\ Intersects(eng.geometries[eng.log[e].g], ZoneHandle(eng.log[e].z))
          /\ eng.log[f].z = eng.log[e].z
          /\ f > e
          /\ eng.log[f].result = "hit"
          /\ eng.log[h].z > eng.log[e].z
          /\ eng.log[h].result = "hit"
    /\ Len(eng.created) = 2

\* C20 (as stated): the pairs are evaluated by ascending project geometry
\* index first, then by zone in the order of the list of protections: of
\* two pairs, the one evaluated first has the smaller geometry index, or
\* the same index and the earlier zone.
PairsByGeometryThenZone ==
    eng.pc # "off" =>
        \A e, f \in DOMAIN eng.log :
            e < f =>
                \/ eng.log[e].g < eng.log[f].g
                \/ /\ eng.log[e].g = eng.log[f].g
                   /\ eng.log[e].z < eng.log[f].z

\* C20 (amended): the pairs are evaluated by zone first, in the order of the
\* list of protections, then by ascending project geometry index; the
\* create calls follow the zone order, and the set of zones that get one is
\* the set of zones hit by some pair, whatever the order of the pairs.
PairsByZoneThenGeometry ==
    eng.pc # "off" =>
        /\ \A e, f \in DOMAIN eng.log :
              e < f =>
                  \/ eng.log[e].z < eng.log[f].z
                  \/ /\ eng.log[e].z = eng.log[f].z
                     /\ eng.log[e].g < eng.log[f].g
        /\ {eng.created[c].zone : c \in DOMAIN eng.created} =
              {eng.protections[z].procedure_id :
                  z \in {y \in ZonesDone : HitsOf(y) # {}}}

PairsByZoneThenGeometryWitness ==
    /\ eng.pc = "done"
    /\ Len(eng.geometries) >= 2
    /\ \E e \in DOMAIN eng.log :
          /\ e + 1 \in DOMAIN eng.log
          /\ eng.log[e].z < eng.log[e + 1].z
          /\ eng.log[e].g > eng.log[e + 1].g
    /\ Len(eng.created) = 2

\* C21: the conflicting_geometry of every create call is a JSON text, never
\* null: the placeholder when no intersection was computed for the zone or
\* the export failed, the export of the one intersection when exactly one
\* was computed, and the export of one collection holding the intersections
\* of all the pairs for which one was computed, in project geometry order,
\* when there are several.
ZoneOf(c) ==
    CHOOSE z \in DOMAIN eng.protections :
        eng.protections[z].procedure_id = eng.created[c].zone

ComputedFor(z) ==
    {g \in DOMAIN eng.geometries :
        \E e \in DOMAIN eng.log :
            eng.log[e].z = z /\ eng.log[e].g = g /\ eng.log[e].computed}

PairIntersection(z, g) ==
    Intersection(eng.geometries[g], Repair(ZoneHandle(z)))

ConflictGeometryShape ==
    eng.pc # "off" =>
        \A c \in DOMAIN eng.created :
            LET z == ZoneOf(c)
                S == ComputedFor(z)
                json == eng.created[c].conflicting_geometry
            IN  /\ json # Null
                /\ (S = {} \/ ~eng.created[c].exported) => json = Placeholder
                /\ (Cardinality(S) = 1 /\ eng.created[c].exported) =>
                      json = ExportToJson(PairIntersection(z, Nth(S, 1)))
                /\ (Cardinality(S) > 1 /\ eng.created[c].exported) =>
                      /\ json.type = "GeometryCollection"
                      /\ Len(json.geometries) = Cardinality(S)
                      /\ \A k \in 1..Cardinality(S) :
                            json.geometries[k] =
                                ExportToJson(PairIntersection(z, Nth(S, k)))

ConflictGeometryShapeWitness ==
    /\ eng.pc = "done"
    /\ \E c, d \in DOMAIN eng.created :
          /\ Cardinality(ComputedFor(ZoneOf(c))) = 2
          /\ eng.created[c].exported
          /\ eng.created[c].conflicting_geometry.geometries[1]
                # eng.created[c].conflicting_geometry.geometries[2]
          /\ Cardinality(ComputedFor(ZoneOf(d))) = 1
          /\ ~eng.created[d].exported

\* C22: a failure limited to one zone does not stop the zones after it.  A
\* zone whose geometry does not parse is skipped, untested and without a
\* create call; every zone that has a geometry is tested against every
\* project geometry and gets its create call when hit, whatever happened to
\* the zones before it, and the row of a create call that succeeded is in
\* the table; the execution ends only after the last zone.
LaterZonesProcessed ==
    eng.pc # "off" =>
        /\ \A z \in ZonesDone :
              /\ ZoneHandle(z) = Null =>
                    /\ CreatedFor(z) = {}
                    /\ \A g \in DOMAIN eng.geometries : ~Tested(z, g)
              /\ ZoneHandle(z) # Null =>
                    \A g \in DOMAIN eng.geometries : Tested(z, g)
              /\ HitsOf(z) # {} =>
                    /\ CreatedFor(z) # {}
                    /\ \A c \in CreatedFor(z) :
                          eng.created[c].ok =>
                              BagIn(ConflictRow(
                                        1, eng.protections[z].procedure_id, 1),
                                    conflicts)
        /\ (eng.pc = "done" /\ eng.outcome = "Completed") =>
              ZonesDone = DOMAIN eng.protections

LaterZonesProcessedWitness ==
    /\ eng.pc = "done"
    /\ Len(eng.protections) = 3
    /\ ZoneHandle(1) = Null
    /\ \E c, d \in DOMAIN eng.created :
          /\ ZoneOf(c) = 2
          /\ ~eng.created[c].ok
          /\ ZoneOf(d) = 3
          /\ eng.created[d].ok
          /\ BagIn(ConflictRow(1, eng.protections[3].procedure_id, 1),
                   conflicts)
          /\ ~BagIn(ConflictRow(1, eng.protections[2].procedure_id, 1),
                    conflicts)

\* C23: the list of protections has exactly one zone per active row of
\* flight_procedures with a geometry, in row order; a zone stored as a
\* FeatureCollection has for geometry one MultiPolygon holding the
\* coordinates of every Polygon feature of the collection, in feature
\* order; and such a zone is usable (a geometry is built from it) as soon
\* as the collection has a Polygon feature and its Polygon features are well
\* formed, whatever its other features are.
ActiveRows == {i \in DOMAIN procedures : ActiveWithGeometry(procedures[i])}

PolygonsOf(features) ==
    {i \in DOMAIN features :
        /\ Contains(features[i], "geometry")
        /\ Contains(features[i].geometry, "type")
        /\ features[i].geometry.type = "Polygon"}

ProtectionsNormalized ==
    Normalized =>
        /\ Len(eng.protections) = Cardinality(ActiveRows)
        /\ \A k \in DOMAIN eng.protections :
              LET row == procedures[Nth(ActiveRows, k)]
                  stored == row.protection_geometry
                  geometry == eng.protections[k].protection_geometry
              IN  /\ eng.protections[k].procedure_id = row.id
                  /\ Contains(stored, "features") =>
                        LET P == PolygonsOf(stored.features)
                        IN  /\ Contains(geometry, "type")
                            /\ geometry.type = "MultiPolygon"
                            /\ geometry.polygons =
                                  [j \in 1..Cardinality(P) |->
                                      stored.features[Nth(P, j)].geometry.cells]
                            /\ (/\ P # {}
                                /\ \A i \in P :
                                      stored.features[i].geometry.wellformed)
                                  => createSimpleGeometryFromGeoJSON(geometry)
                                         # Null

\* C24 (as stated): the phase of a run is Idle before the trigger, Fetching
\* during the two reads, Normalizing while the project geometries are
\* parsed, Testing while a zone is parsed and its pairs are tested,
\* Persisting while the Conflict of a hit zone is built and inserted and
\* while the status is updated, and then terminal.  No step of a run takes
\* it to an earlier phase.
AbortOutcomes == {"Aborted", "Exception", "InvalidCollection", "NoGeometry"}

Phase ==
    CASE eng.pc = "idle" -> "Idle"
      [] eng.pc = "fetch" -> "Fetching"
      [] eng.pc = "normalize" -> "Normalizing"
      [] eng.pc \in {"zone", "pair"} -> "Testing"
      [] eng.pc = "aggregate" ->
             IF eng.conflict_found THEN "Persisting" ELSE "Testing"
      [] eng.pc = "status" -> "Persisting"
      [] eng.pc = "done" ->
             IF eng.outcome \in AbortOutcomes THEN "Aborted"
             ELSE eng.outcome

PhaseRank(phase) ==
    CASE phase = "Idle" -> 0
      [] phase = "Fetching" -> 1
      [] phase = "Normalizing" -> 2
      [] phase = "Testing" -> 3
      [] phase = "Persisting" -> 4
      [] OTHER -> 5

PhasesNeverGoBack ==
    [][PhaseRank(Phase') >= PhaseRank(Phase)]_vars

\* C24 (amended): a run passes Idle, Fetching and Normalizing in that order,
\* then Testing and Persisting zone by zone: the only step to an earlier
\* phase is the one from Persisting to Testing for the next zone, and no
\* zone is taken twice.  Every step of a run uses up some of a bounded
\* amount of remaining work, so the run terminates; a run that can take no
\* further step has ended, Completed or Aborted unless findById did not
\* return (it threw); and the geometry nested in a Feature of a Feature is
\* parsed.
Remaining ==
    LET nz == Len(eng.protections)
        ng == Len(eng.geometries)
        zone == ng + 2
        later == (nz - eng.z) * zone
    IN  CASE eng.pc = "done" -> 0
          [] eng.pc = "status" -> 1
          [] eng.pc = "aggregate" -> later + 2
          [] eng.pc = "pair" -> later + 2 + (ng + 1 - eng.k)
          [] eng.pc = "zone" -> later + zone + 1
          [] eng.pc = "normalize" -> nz * (MaxFeatures + 2) + 2
          [] eng.pc = "fetch" -> 3 * (MaxFeatures + 2) + 3
          [] eng.pc = "idle" -> 3 * (MaxFeatures + 2) + 4

PhaseStep ==
    /\ \/ PhaseRank(Phase') >= PhaseRank(Phase)
       \/ /\ Phase = "Persisting"
          /\ Phase' = "Testing"
          /\ eng'.z = eng.z + 1
    /\ eng'.z >= eng.z
    /\ Remaining' < Remaining
    /\ Remaining' >= 0

PhasesZoneByZone ==
    /\ [][PhaseStep]_vars
    /\ [](eng.pc # "done" => ENABLED EngineNext)
    /\ [](eng.pc = "done" =>
            /\ eng.outcome # "Thrown" => Phase \in {"Completed", "Aborted"}
            /\ eng.payload = Feature(Feature(gB)) =>
                  eng.geometries = <<OGRcreateFromGeoJson(gB)>>)

PhasesZoneByZoneWitness ==
    /\ eng.pc = "done"
    /\ eng.outcome = "Completed"
    /\ projects[1].status = "Under_Review"
    /\ Len(eng.created) = 2
    /\ eng.created[1].zone # eng.created[2].zone
    /\ \E e, f \in DOMAIN eng.log : eng.log[e].z < eng.log[f].z

\* C25: no submission's features are lost by the read-merge-write of another
\* submission.  A submission that stores its geometry, and whose SELECT
\* returned what was stored when it read, leaves every feature stored at the
\* time of its write in place and adds its own after them, also when another
\* submission of the project wrote between its read and its write.
ConcurrentSubmissionsKept ==
    [][\A t \in Threads :
          (/\ hpc[t] = "saveWrite"
           /\ hpc'[t] = "update"
           /\ hreq'[t].stored
           /\ hfinal[t] = hreq[t].seen)
              => StoredFeatures(hreq[t].id)' =
                     StoredFeatures(hreq[t].id)
                         \o hreq[t].geometry.features]_vars

\* C26: the status update that ends a run changes no column of the project
\* other than its status: the title the row holds when the run writes,
\* whoever wrote it since the run read the project, is the title the row
\* holds afterwards.
StatusUpdateKeepsOtherFields ==
    [][\A t \in Threads :
          (rpc[t] = "update" /\ rpc'[t] = "done") =>
              projects'[run[t].project_id].title
                  = projects[run[t].project_id].title]_vars

\* C27: a run moves the status from Pending to UnderReview only: the status
\* update that ends a run leaves a status that is no longer Pending as it
\* is.
OnlyPendingBecomesUnderReview ==
    [][\A t \in Threads :
          (/\ rpc[t] = "update"
           /\ rpc'[t] = "done"
           /\ stringToStatus(projects[run[t].project_id].status) # "Pending")
              => projects'[run[t].project_id].status
                     = projects[run[t].project_id].status]_vars

\* C28: a request that submitProject answers with an error (400, 401, 404
\* or 500) has changed nothing: it has not stored its geometry, has not set
\* the status to Pending and has launched no run.
ErrorAnswerChangesNothing ==
    (answer # NoAnswer /\ answer.code \in {400, 401, 404, 500}) =>
        /\ ~answer.stored
        /\ ~answer.pending
        /\ ~answer.launched

\* C29: the connection made for the thread of an analysis run is closed and
\* out of active_connections_ once that thread has ended: no id of an ended
\* thread has an entry in the map, every open connection is the connection
\* of a live thread, and so there are never more open connections than
\* live threads.
ConnectionsOfLiveThreads ==
    dbm # ManagerOff =>
        /\ \A id \in ThreadIds \ dbm.live :
              dbm.active_connections[id] = NoConnection
        /\ \A conn \in dbm.open :
              \E id \in dbm.live : dbm.thread_connection[id] = conn
        /\ Cardinality(dbm.open) <= Cardinality(dbm.live)

\* C30: deleteProject, called for an existing project by a request whose
\* Authorization header starts with 'Bearer ', deletes the project and
\* answers 200; it answers 401 only when the request's Authorization header
\* is missing or malformed.
DeleteAuthorizedByHeader ==
    removal # NoAnswer =>
        /\ (checkAuthorization(removal.auth_header)
               /\ removal.id \in Projects)
              => (removal.code = 200 /\ projects[removal.id] = Null)
        /\ removal.code = 401 => ~checkAuthorization(removal.auth_header)

====
